---- MODULE Spec2Model ----
(***************************************************************************)
(* Model of the QuizTronic buzzer firmware (Buzzer/Firmware/src):          *)
(* audio.c, state.c, host.c, wifi.c, gpio.c and main.c.                    *)
(*                                                                         *)
(* Execution contexts: the main task (app_main / run), the heartbeat task, *)
(* the button poll task, the 1 ms timer interrupt, and the system event    *)
(* loop that delivers WIFI / IP events to event_handler.                   *)
(***************************************************************************)
EXTENDS Integers, Naturals, Sequences, FiniteSets, TLC

\* ------------------------------------------------------------------------
\* Program constants.
\* ------------------------------------------------------------------------
MSG_VERSION == 4
MSG_MODE_PREFIX == 32
MSG_MODE_MASK == 252
MSG_MODE_LED == 1
MSG_MODE_AUDIO == 2
MSG_PRESS == 48
MSG_HEARTBEAT == 49
MSG_ERR_BAD_MSG == 127
MSG_ID_PREFIX == 128
AUDIO_DURATION == 1000
WIFI_MAX_RETRIES == 6
WIFI_CONNECTED == 1
WIFI_FAILED == 2
STATE_DIVIDE == 125
ID_SIZE == 7

\* ------------------------------------------------------------------------
\* Bounds of the model.
\* ------------------------------------------------------------------------
\* Number of lwIP socket descriptors: socket() fails once this many are open.
MaxSock == 2
\* Bytes a stream buffers before a blocking send() stops accepting more.
MaxSent == 3
\* Number of timer interrupts taken in the full-system specification.
MaxTicks == 2
\* Periods of the status tick the timer runs for in the timer specification.
MaxWindows == 3

\* ------------------------------------------------------------------------
\* Bit arithmetic on uint8_t. BitAnd and BitOr take the values of their
\* arguments once, before the bitwise recursion.
\* ------------------------------------------------------------------------
RECURSIVE BitAndN(_, _, _)
BitAndN(a, b, n) ==
    IF n = 0 THEN 0
    ELSE ((a % 2) * (b % 2)) + 2 * BitAndN(a \div 2, b \div 2, n - 1)

BitAnd(a, b) == CHOOSE r \in {BitAndN(x, y, 8) : x \in {a}, y \in {b}} : TRUE

RECURSIVE BitOrN(_, _, _)
BitOrN(a, b, n) ==
    IF n = 0 THEN 0
    ELSE (IF (a % 2) + (b % 2) > 0 THEN 1 ELSE 0) + 2 * BitOrN(a \div 2, b \div 2, n - 1)

BitOr(a, b) == CHOOSE r \in {BitOrN(x, y, 8) : x \in {a}, y \in {b}} : TRUE

Threads == {"main", "hb", "btn"}

\* Bytes the host is modelled to send: the four MODE commands and two others.
HostBytes == {32, 33, 34, 35, 1, 36}

\* Levels of the module id pins of the modelled board (id 67).
BoardIdPins == <<1, 0, 0, 0, 0, 1, 1>>

VARIABLES
    \* audio.c
    _audio_start, _audio_stop, _audio_count, pin_buzzer,
    \* state.c
    _connected, _led_on, _button_pressed, _status_flashing, _flash_phase,
    pin_led_button, pin_led_pcb, pin_led_status,
    \* main.c: divider, position of the main task
    _timer_state_divide, main_pc,
    \* host.c: socket handle, host_connect's local, position of each caller
    \* inside host_send, position and local of the button poll task, the
    \* level check_button sampled last
    _host_socket, sock, hs, btn_pc, btn_new, btn_last,
    \* wifi.c: event group bits, retry counter, handler registration,
    \* wifi_connect's local
    _wifi_event_signal, _wifi_connect_retries, wifi_registered, signal,
    \* gpio.c: levels of the module id pins
    _id_pins,
    \* environment: WIFI driver, network, sockets, bytes sent on the socket
    \* opened last (the only one a handle read from _host_socket can name)
    wifi_started, link, net_up, open_socks, broken, stream,
    \* observation: interrupts taken, the calls the last interrupt made, what
    \* the last tick consumed, outcome
    \* and byte of the last recv, last return value of host_send per caller,
    \* record of the current wifi_connect call, record of the current
    \* iteration of the main loop, mode command awaiting its first tick
    ticks, isr_calls, last_tick, rx, msg, ret, call, iter, mode_req

audioVars == <<_audio_start, _audio_stop, _audio_count, pin_buzzer>>
stateVars == <<_connected, _led_on, _button_pressed, _status_flashing, _flash_phase,
               pin_led_button, pin_led_pcb, pin_led_status>>
mainVars == <<_timer_state_divide, main_pc>>
hostVars == <<_host_socket, sock, hs, btn_pc, btn_new, btn_last>>
wifiVars == <<_wifi_event_signal, _wifi_connect_retries, wifi_registered, signal>>
envVars == <<wifi_started, link, net_up, open_socks, broken, stream, _id_pins>>
obsVars == <<ticks, isr_calls, last_tick, rx, msg, ret, call, iter, mode_req>>
vars == <<audioVars, stateVars, mainVars, hostVars, wifiVars, envVars, obsVars>>

\* ------------------------------------------------------------------------
\* audio.c
\* ------------------------------------------------------------------------

\* What a tick finds pending.
TickKind ==
    IF _audio_start /\ _audio_stop THEN "both"
    ELSE IF _audio_start THEN "start"
    ELSE IF _audio_stop THEN "stop"
    ELSE "idle"

\* audio_tick with the stop check made the else-branch of the start check.
audio_tick_elseif ==
    LET c1 == IF _audio_start /\ _audio_count = 0 THEN AUDIO_DURATION ELSE _audio_count
        c2 == IF ~_audio_start /\ _audio_stop THEN 1 ELSE c1
    IN  /\ _audio_start' = FALSE
        /\ _audio_stop' = (_audio_start /\ _audio_stop)
        /\ IF c2 > 0
           THEN /\ _audio_count' = c2 - 1
                /\ pin_buzzer' = (c2 - 1) % 2
           ELSE /\ _audio_count' = c2
                /\ pin_buzzer' = pin_buzzer
        /\ last_tick' = [kind |-> TickKind, par |-> 1 - last_tick.par, cnt |-> _audio_count]

\* audio_tick with a start that reloads the counter whatever its value.
audio_tick_restart ==
    LET c1 == IF _audio_start THEN AUDIO_DURATION ELSE _audio_count
        c2 == IF _audio_stop THEN 1 ELSE c1
    IN  /\ _audio_start' = FALSE
        /\ _audio_stop' = FALSE
        /\ IF c2 > 0
           THEN /\ _audio_count' = c2 - 1
                /\ pin_buzzer' = (c2 - 1) % 2
           ELSE /\ _audio_count' = c2
                /\ pin_buzzer' = pin_buzzer
        /\ last_tick' = [kind |-> TickKind, par |-> 1 - last_tick.par, cnt |-> _audio_count]

\* audio_tick with a stop that clears the counter instead of forcing it to 1.
audio_tick_stop_zero ==
    LET c1 == IF _audio_start /\ _audio_count = 0 THEN AUDIO_DURATION ELSE _audio_count
        c2 == IF _audio_stop THEN 0 ELSE c1
    IN  /\ _audio_start' = FALSE
        /\ _audio_stop' = FALSE
        /\ IF c2 > 0
           THEN /\ _audio_count' = c2 - 1
                /\ pin_buzzer' = (c2 - 1) % 2
           ELSE /\ _audio_count' = c2
                /\ pin_buzzer' = pin_buzzer
        /\ last_tick' = [kind |-> TickKind, par |-> 1 - last_tick.par, cnt |-> _audio_count]

\* audio_tick with the transducer written before the decrement.
audio_tick_pin_first ==
    LET c1 == IF _audio_start /\ _audio_count = 0 THEN AUDIO_DURATION ELSE _audio_count
        c2 == IF _audio_stop THEN 1 ELSE c1
    IN  /\ _audio_start' = FALSE
        /\ _audio_stop' = FALSE
        /\ IF c2 > 0
           THEN /\ _audio_count' = c2 - 1
                /\ pin_buzzer' = c2 % 2
           ELSE /\ _audio_count' = c2
                /\ pin_buzzer' = pin_buzzer
        /\ last_tick' = [kind |-> TickKind, par |-> 1 - last_tick.par, cnt |-> _audio_count]

\* void audio_tick(void): start is consumed first, then stop, then playback.
audio_tick ==
    LET c1 == IF _audio_start /\ _audio_count = 0 THEN AUDIO_DURATION ELSE _audio_count
        c2 == IF _audio_stop THEN 1 ELSE c1
    IN  /\ _audio_start' = FALSE
        /\ _audio_stop' = FALSE
        /\ IF c2 > 0
           THEN /\ _audio_count' = c2 - 1
                /\ pin_buzzer' = (c2 - 1) % 2
           ELSE /\ _audio_count' = c2
                /\ pin_buzzer' = pin_buzzer
        /\ last_tick' = [kind |-> TickKind, par |-> 1 - last_tick.par, cnt |-> _audio_count]

\* void audio_start(void)
audio_start ==
    /\ _audio_start' = TRUE
    /\ UNCHANGED <<_audio_stop, _audio_count, pin_buzzer>>

\* void audio_stop(void)
audio_stop ==
    /\ _audio_stop' = TRUE
    /\ UNCHANGED <<_audio_start, _audio_count, pin_buzzer>>

\* ------------------------------------------------------------------------
\* state.c
\* ------------------------------------------------------------------------

\* state_connect that leaves the button LED and its flag as they are.
state_connect_keeps_led ==
    /\ _connected' = FALSE
    /\ _status_flashing' = TRUE
    /\ audio_stop
    /\ UNCHANGED <<_led_on, pin_led_button, _button_pressed, _flash_phase,
                   pin_led_pcb, pin_led_status>>

\* void state_connect(void)
state_connect ==
    /\ _connected' = FALSE
    /\ _led_on' = FALSE
    /\ _status_flashing' = TRUE
    /\ pin_led_button' = 0
    /\ audio_stop
    /\ UNCHANGED <<_button_pressed, _flash_phase, pin_led_pcb, pin_led_status>>

\* void state_connected(void)
state_connected ==
    /\ _connected' = TRUE
    /\ _led_on' = FALSE
    /\ _status_flashing' = FALSE
    /\ pin_led_button' = 0
    /\ audio_stop
    /\ UNCHANGED <<_button_pressed, _flash_phase, pin_led_pcb, pin_led_status>>

\* state_enable that requests no stop when audio is false.
state_enable_start_only(led, audio) ==
    /\ _led_on' = led
    /\ pin_led_button' = (IF led THEN 1 ELSE 0)
    /\ IF audio THEN audio_start ELSE UNCHANGED audioVars
    /\ _status_flashing' = FALSE
    /\ UNCHANGED <<_connected, _button_pressed, _flash_phase, pin_led_pcb, pin_led_status>>

\* void state_enable(bool led, bool audio)
state_enable(led, audio) ==
    /\ _led_on' = led
    /\ pin_led_button' = (IF led THEN 1 ELSE 0)
    /\ IF audio THEN audio_start ELSE audio_stop
    /\ _status_flashing' = FALSE
    /\ UNCHANGED <<_connected, _button_pressed, _flash_phase, pin_led_pcb, pin_led_status>>

\* state_tick with a non-flashing branch that leaves the phase as it is.
state_tick_hold == IF _status_flashing THEN 1 - _flash_phase ELSE _flash_phase

\* void state_tick(void): the values it gives _flash_phase and the status LED.
state_tick_phase == IF _status_flashing THEN 1 - _flash_phase ELSE 1

\* ------------------------------------------------------------------------
\* gpio.c
\* ------------------------------------------------------------------------

\* uint8_t read_module_id(void): id = (id << 1) | pin over the ID_SIZE pins.
RECURSIVE read_id_from(_, _, _)
read_id_from(pins, i, id) ==
    IF i > ID_SIZE THEN id
    ELSE read_id_from(pins, i + 1, BitOr((id * 2) % 256, pins[i]))

\* read_module_id over six pins, the first one left out.
read_module_id_six == read_id_from(_id_pins, 2, 0)

read_module_id == read_id_from(_id_pins, 1, 0)

\* ------------------------------------------------------------------------
\* host.c
\* ------------------------------------------------------------------------

\* Descriptors on which a send or recv can succeed: open and not broken.
Healthy(fd) == fd \in open_socks /\ fd \notin broken

\* main.c:106-110: where the main loop goes when run() returns r.
app_main_always_delay(r) == "delay"

app_main_after_run(r) == IF r THEN "run" ELSE "delay"

\* host.c:32 with the check left out.
host_send_dead_unchecked == FALSE

\* host.c:32: if(_host_socket == 0) return false;
host_send_dead == _host_socket = 0

\* The byte each caller of host_send passes.
SendByte(t) ==
    IF t = "hb" THEN MSG_HEARTBEAT
    ELSE IF t = "btn" THEN MSG_PRESS
    ELSE IF main_pc = "hc_ver" THEN MSG_VERSION
    ELSE IF main_pc = "hc_id" THEN BitOr(MSG_ID_PREFIX, read_module_id)
    ELSE MSG_ERR_BAD_MSG

\* Where the main task continues when host_send returns r: host_connect
\* (host.c:98-101) and run (main.c:74-78), or host_process_messages.
MainCont(r) ==
    IF main_pc = "hc_ver"
    THEN IF r THEN [pc |-> "hc_id", hs |-> "chk", host |-> "none"]
         ELSE [pc |-> app_main_after_run(FALSE), hs |-> "idle", host |-> "fail"]
    ELSE IF main_pc = "hc_id"
    THEN IF r THEN [pc |-> "connected", hs |-> "idle", host |-> "ok"]
         ELSE [pc |-> app_main_after_run(FALSE), hs |-> "idle", host |-> "fail"]
    ELSE [pc |-> "pm_loop", hs |-> "idle", host |-> iter.host]

\* host_send returns r to caller t.
HostSendReturn(t, r) ==
    /\ ret' = [ret EXCEPT ![t] = IF r THEN "ok" ELSE "fail"]
    /\ IF t = "main"
       THEN /\ main_pc' = MainCont(r).pc
            /\ hs' = [hs EXCEPT ![t] = MainCont(r).hs]
            /\ iter' = [iter EXCEPT !.host = MainCont(r).host]
            /\ UNCHANGED btn_pc
       ELSE /\ hs' = [hs EXCEPT ![t] = IF t = "hb" THEN "chk" ELSE "idle"]
            /\ btn_pc' = (IF t = "btn" THEN "finish" ELSE btn_pc)
            /\ UNCHANGED <<main_pc, iter>>

hostSendFrame == <<audioVars, stateVars, _timer_state_divide, sock, btn_new, btn_last, wifiVars,
                   wifi_started, link, net_up, open_socks, broken, _id_pins,
                   ticks, isr_calls, last_tick, rx, msg, call, mode_req>>

\* host_send, line 32: the dead check.
HostSendChk(t) ==
    /\ hs[t] = "chk"
    /\ IF host_send_dead
       THEN HostSendReturn(t, FALSE)
       ELSE /\ hs' = [hs EXCEPT ![t] = "send"]
            /\ UNCHANGED <<ret, main_pc, btn_pc, iter>>
    /\ UNCHANGED <<_host_socket, stream>>
    /\ UNCHANGED hostSendFrame

\* host_send, line 36: send(_host_socket, msg, 1, 0). The handle is read again
\* here. A healthy socket takes the byte (and blocks while its buffer is
\* full); a broken one, or descriptor 0, makes send fail.
HostSendSys(t) ==
    /\ hs[t] = "send"
    /\ IF Healthy(_host_socket)
       THEN /\ Len(stream) < MaxSent
            /\ stream' = Append(stream, SendByte(t))
            /\ HostSendReturn(t, TRUE)
       ELSE /\ hs' = [hs EXCEPT ![t] = "mark"]
            /\ UNCHANGED <<stream, ret, main_pc, btn_pc, iter>>
    /\ UNCHANGED _host_socket
    /\ UNCHANGED hostSendFrame

\* host_send, lines 39-40: _host_socket = 0; return false;
HostSendMark(t) ==
    /\ hs[t] = "mark"
    /\ _host_socket' = 0
    /\ HostSendReturn(t, FALSE)
    /\ UNCHANGED stream
    /\ UNCHANGED hostSendFrame

\* heartbeat_task: host_send(MSG_HEARTBEAT), delay, again; the task is at the
\* call of host_send whenever it is not inside it.
Heartbeat == HostSendChk("hb") \/ HostSendSys("hb") \/ HostSendMark("hb")

\* ------------------------------------------------------------------------
\* state.c: the button poll task
\* ------------------------------------------------------------------------

\* state.c:41 without the test of the previous sample.
check_button_level(new_state) == new_state /\ _connected

\* state.c:41: a press is reported when newly pressed and connected.
check_button_reports(new_state) == new_state /\ ~_button_pressed /\ _connected

\* check_button up to the call of host_send_press; without a press to report
\* it runs to its end.
ButtonPoll ==
    /\ btn_pc = "poll"
    /\ \E new_state \in BOOLEAN :
          /\ btn_last' = new_state
          /\ IF check_button_reports(new_state)
             THEN /\ btn_pc' = "press"
                  /\ btn_new' = new_state
                  /\ hs' = [hs EXCEPT !["btn"] = "chk"]
                  /\ UNCHANGED <<_button_pressed, pin_led_pcb, ret>>
             ELSE /\ _button_pressed' = new_state
                  /\ pin_led_pcb' = (IF new_state THEN 1 ELSE 0)
                  /\ UNCHANGED <<btn_pc, btn_new, hs, ret>>
    /\ UNCHANGED <<audioVars, _connected, _led_on, _status_flashing, _flash_phase,
                   pin_led_button, pin_led_status, mainVars, _host_socket, sock,
                   wifiVars, envVars, ticks, isr_calls, last_tick, rx, msg, call, iter, mode_req>>

\* check_button after host_send_press returned (state.c:48-56).
ButtonFinish ==
    /\ btn_pc = "finish"
    /\ _button_pressed' = btn_new
    /\ pin_led_pcb' = (IF btn_new THEN 1 ELSE 0)
    /\ btn_pc' = "poll"
    /\ btn_new' = FALSE
    /\ UNCHANGED <<audioVars, _connected, _led_on, _status_flashing, _flash_phase,
                   pin_led_button, pin_led_status, mainVars, _host_socket, sock, hs,
                   btn_last, wifiVars, envVars, obsVars>>

Button == ButtonPoll \/ HostSendChk("btn") \/ HostSendSys("btn") \/ HostSendMark("btn") \/ ButtonFinish

\* ------------------------------------------------------------------------
\* wifi.c
\* ------------------------------------------------------------------------

\* static void event_handler(...): the values it gives the event group bits,
\* the retry counter and (through esp_wifi_connect) the association.
event_handler(ev) ==
    IF ev = "STA_START"
    THEN [bits |-> _wifi_event_signal, retries |-> 0, link |-> "connecting"]
    ELSE IF ev = "STA_DISCONNECTED"
    THEN IF _wifi_connect_retries >= WIFI_MAX_RETRIES
         THEN [bits |-> BitOr(_wifi_event_signal, WIFI_FAILED),
               retries |-> _wifi_connect_retries, link |-> "idle"]
         ELSE [bits |-> _wifi_event_signal,
               retries |-> _wifi_connect_retries + 1, link |-> "connecting"]
    ELSE [bits |-> BitOr(_wifi_event_signal, WIFI_CONNECTED),
          retries |-> _wifi_connect_retries, link |-> "up"]

\* What the current wifi_connect call has seen, after the handler ran for ev.
CallAfter(ev) ==
    LET h == event_handler(ev)
    IN  [call EXCEPT
           !.set = @ \cup (IF ev = "GOT_IP" THEN {WIFI_CONNECTED}
                           ELSE IF ev = "STA_DISCONNECTED" /\ h.link = "idle"
                           THEN {WIFI_FAILED} ELSE {}),
           !.disc = @ + (IF ev = "STA_DISCONNECTED" THEN 1 ELSE 0),
           !.retry = @ + (IF ev = "STA_DISCONNECTED" /\ h.link = "connecting" THEN 1 ELSE 0)]

eventFrame == <<audioVars, stateVars, _timer_state_divide, hostVars, wifi_registered,
                wifi_started, net_up, open_socks, broken, stream, _id_pins,
                ticks, isr_calls, last_tick, rx, msg, ret, iter, mode_req>>

\* The bits xEventGroupWaitBits waits for (wifi.c:99).
WaitedBits(bits) == BitAnd(bits, BitOr(WIFI_CONNECTED, WIFI_FAILED))

\* The event loop delivers an event: to event_handler while it is registered,
\* to nobody otherwise. xEventGroupSetBits hands a task blocked in
\* xEventGroupWaitBits the bits as they are at that moment and readies it.
Deliver(ev, dropped_link) ==
    /\ IF wifi_registered
       THEN /\ _wifi_event_signal' = event_handler(ev).bits
            /\ _wifi_connect_retries' = event_handler(ev).retries
            /\ link' = event_handler(ev).link
            /\ call' = CallAfter(ev)
            /\ IF main_pc = "wifi_blocked" /\ WaitedBits(event_handler(ev).bits) # 0
               THEN /\ signal' = event_handler(ev).bits
                    /\ main_pc' = "wifi_unreg"
               ELSE UNCHANGED <<signal, main_pc>>
       ELSE /\ link' = dropped_link
            /\ UNCHANGED <<_wifi_event_signal, _wifi_connect_retries, call, signal, main_pc>>
    /\ UNCHANGED eventFrame

\* WIFI_EVENT_STA_START, posted by esp_wifi_start.
EvStaStart ==
    /\ link = "start_posted"
    /\ Deliver("STA_START", "idle")

\* WIFI_EVENT_STA_DISCONNECTED: an association attempt failed or the
\* association was lost, which happens while the network is out of reach.
EvDisconnected ==
    /\ link \in {"connecting", "up"}
    /\ ~net_up
    /\ Deliver("STA_DISCONNECTED", "idle")

\* IP_EVENT_STA_GOT_IP: the attempt succeeded and DHCP gave an address.
EvGotIp ==
    /\ link = "connecting"
    /\ net_up
    /\ Deliver("GOT_IP", "up")

WifiEvent == EvStaStart \/ EvDisconnected \/ EvGotIp

NoCall == [set |-> {}, disc |-> 0, retry |-> 0, result |-> "none"]

\* wifi_connect, lines 90-96: register the handlers, esp_wifi_start(). The
\* first start posts STA_START; a start of a driver that is already started
\* and idle may or may not post it again.
WifiRegister ==
    /\ main_pc = "wifi_reg"
    /\ wifi_registered' = TRUE
    /\ wifi_started' = TRUE
    /\ \E post \in (IF wifi_started THEN BOOLEAN ELSE {TRUE}) :
          link' = (IF post /\ link = "idle" THEN "start_posted" ELSE link)
    /\ call' = NoCall
    /\ main_pc' = "wifi_wait"
    /\ UNCHANGED <<audioVars, stateVars, _timer_state_divide, hostVars,
                   _wifi_event_signal, _wifi_connect_retries, signal,
                   net_up, open_socks, broken, stream, _id_pins,
                   ticks, isr_calls, last_tick, rx, msg, ret, iter, mode_req>>

\* wifi_connect, lines 99-100: xEventGroupWaitBits(CONNECTED | FAILED, no
\* clear on exit, any bit, no timeout): returns at once with the bits if one
\* of them is set, blocks otherwise. Nothing ever clears the bits.
WifiWait ==
    /\ main_pc = "wifi_wait"
    /\ IF WaitedBits(_wifi_event_signal) # 0
       THEN /\ signal' = _wifi_event_signal
            /\ main_pc' = "wifi_unreg"
       ELSE /\ main_pc' = "wifi_blocked"
            /\ UNCHANGED signal
    /\ UNCHANGED <<audioVars, stateVars, _timer_state_divide, hostVars,
                   _wifi_event_signal, _wifi_connect_retries, wifi_registered,
                   envVars, obsVars>>

\* wifi_connect, lines 107-113: the value it returns for the bits it read.
wifi_connect_result(sig) == BitAnd(sig, WIFI_FAILED) = 0

\* wifi_connect, lines 103-113, and run, line 73.
WifiUnregister ==
    /\ main_pc = "wifi_unreg"
    /\ wifi_registered' = FALSE
    /\ call' = [call EXCEPT !.result = IF wifi_connect_result(signal) THEN "ok" ELSE "fail"]
    /\ iter' = [iter EXCEPT !.wifi = IF wifi_connect_result(signal) THEN "ok" ELSE "fail"]
    /\ main_pc' = (IF wifi_connect_result(signal) THEN "hc_socket"
                   ELSE app_main_after_run(FALSE))
    /\ UNCHANGED <<audioVars, stateVars, _timer_state_divide, hostVars,
                   _wifi_event_signal, _wifi_connect_retries, signal,
                   envVars, ticks, isr_calls, last_tick, rx, msg, ret, mode_req>>

\* ------------------------------------------------------------------------
\* host.c: host_connect and host_process_messages; main.c: run and app_main
\* ------------------------------------------------------------------------

\* run, line 72: state_connect().
RunStart ==
    /\ main_pc = "run"
    /\ state_connect
    /\ main_pc' = "wifi_reg"
    /\ iter' = [est |-> FALSE, prev_est |-> iter.est, how |-> iter.how,
                wifi |-> "none", host |-> "none"]
    /\ mode_req' = "none"
    /\ UNCHANGED <<_timer_state_divide, hostVars, wifiVars, envVars,
                   ticks, isr_calls, last_tick, rx, msg, ret, call>>

\* The descriptor socket() returns: the lowest free one.
FreshFd == CHOOSE fd \in (1..MaxSock) \ open_socks :
              \A other \in (1..MaxSock) \ open_socks : fd <= other

\* host_connect, lines 74-78: socket().
HostConnectSocket ==
    /\ main_pc = "hc_socket"
    /\ IF Cardinality(open_socks) < MaxSock
       THEN /\ sock' = FreshFd
            /\ open_socks' = open_socks \cup {FreshFd}
            /\ broken' = broken \ {FreshFd}
            /\ stream' = <<>>
            /\ main_pc' = "hc_connect"
            /\ UNCHANGED <<_host_socket, iter>>
       ELSE /\ _host_socket' = 0
            /\ main_pc' = app_main_after_run(FALSE)
            /\ iter' = [iter EXCEPT !.host = "fail"]
            /\ UNCHANGED <<sock, open_socks, broken, stream>>
    /\ UNCHANGED <<audioVars, stateVars, _timer_state_divide, hs, btn_pc, btn_new, btn_last,
                   wifiVars, wifi_started, link, net_up, _id_pins,
                   ticks, isr_calls, last_tick, rx, msg, ret, call, mode_req>>

\* host_connect, lines 85-98: connect(); on failure close the socket, on
\* success publish it in _host_socket and call host_send(MSG_VERSION). The
\* host is reached while the association is up and the network reachable.
HostConnectConnect ==
    /\ main_pc = "hc_connect"
    /\ IF link = "up" /\ net_up
       THEN /\ _host_socket' = sock
            /\ main_pc' = "hc_ver"
            /\ hs' = [hs EXCEPT !["main"] = "chk"]
            /\ UNCHANGED <<open_socks, iter, ret>>
       ELSE /\ open_socks' = open_socks \ {sock}
            /\ _host_socket' = 0
            /\ main_pc' = app_main_after_run(FALSE)
            /\ iter' = [iter EXCEPT !.host = "fail"]
            /\ UNCHANGED <<hs, ret>>
    /\ UNCHANGED <<audioVars, stateVars, _timer_state_divide, sock, btn_pc, btn_new, btn_last,
                   wifiVars, wifi_started, link, net_up, broken, stream, _id_pins,
                   ticks, isr_calls, last_tick, rx, msg, call, mode_req>>

\* run, line 77: state_connected().
RunConnected ==
    /\ main_pc = "connected"
    /\ state_connected
    /\ main_pc' = "pm_loop"
    /\ iter' = [iter EXCEPT !.est = TRUE]
    /\ mode_req' = "none"
    /\ UNCHANGED <<_timer_state_divide, hostVars, wifiVars, envVars,
                   ticks, isr_calls, last_tick, rx, msg, ret, call>>

\* host_process_messages, line 109: while(_host_socket != 0); when the loop
\* ends run returns true (main.c:79).
ProcessLoop ==
    /\ main_pc = "pm_loop"
    /\ IF _host_socket # 0
       THEN /\ main_pc' = "pm_recv"
            /\ UNCHANGED iter
       ELSE /\ main_pc' = app_main_after_run(TRUE)
            /\ iter' = [iter EXCEPT !.how = "immediate"]
    /\ rx' = "none"
    /\ msg' = 0
    /\ UNCHANGED <<audioVars, stateVars, _timer_state_divide, hostVars, wifiVars,
                   envVars, ticks, isr_calls, last_tick, ret, call, mode_req>>

\* host.c:114 with a mask that drops bit 2.
is_mode_wide(m) == BitAnd(m, 248) = MSG_MODE_PREFIX

\* host.c:114: (msg & MSG_MODE_MASK) == MSG_MODE_PREFIX
is_mode(m) == BitAnd(m, MSG_MODE_MASK) = MSG_MODE_PREFIX

\* host.c:116-117
mode_led(m) == BitAnd(m, MSG_MODE_LED) # 0

mode_audio(m) == BitAnd(m, MSG_MODE_AUDIO) # 0

\* host_process_messages, lines 114-122: what is done with the byte in msg.
Dispatch(m, received) ==
    IF is_mode(m)
    THEN /\ state_enable(mode_led(m), mode_audio(m))
         /\ mode_req' = (IF received /\ mode_led(m) /\ mode_audio(m) /\ _audio_count = 0
                         THEN "on_idle" ELSE "none")
         /\ main_pc' = "pm_loop"
         /\ UNCHANGED <<hs, ret>>
    ELSE /\ main_pc' = "pm_err"
         /\ hs' = [hs EXCEPT !["main"] = "chk"]
         /\ UNCHANGED <<audioVars, stateVars, mode_req, ret>>

\* host_process_messages, lines 111-122: recv(_host_socket, &msg, 1, 0), its
\* return value unused. A healthy socket delivers a byte of the host. A
\* broken socket, or descriptor 0, makes recv return without storing
\* anything: msg, an uninitialised local, then holds any byte.
ProcessRecv ==
    /\ main_pc = "pm_recv"
    /\ \E b \in HostBytes :
          /\ msg' = b
          /\ rx' = (IF Healthy(_host_socket) THEN "byte" ELSE "err")
          /\ Dispatch(b, Healthy(_host_socket))
    /\ UNCHANGED <<_timer_state_divide, _host_socket, sock, btn_pc, btn_new, btn_last, wifiVars,
                   envVars, ticks, isr_calls, last_tick, call, iter>>

\* app_main, line 109: vTaskDelay(2000 ms) ends.
Delay ==
    /\ main_pc = "delay"
    /\ main_pc' = "run"
    /\ iter' = [iter EXCEPT !.how = "delayed"]
    /\ UNCHANGED <<audioVars, stateVars, _timer_state_divide, hostVars, wifiVars,
                   envVars, ticks, isr_calls, last_tick, rx, msg, ret, call, mode_req>>

Main ==
    \/ RunStart \/ WifiRegister \/ WifiWait \/ WifiUnregister
    \/ HostConnectSocket \/ HostConnectConnect
    \/ HostSendChk("main") \/ HostSendSys("main") \/ HostSendMark("main")
    \/ RunConnected \/ ProcessLoop \/ ProcessRecv \/ Delay

\* ------------------------------------------------------------------------
\* main.c: the timer interrupt
\* ------------------------------------------------------------------------

\* main.c:36-37 with the comparison off by one.
state_tick_due_late == _timer_state_divide + 1 > STATE_DIVIDE

\* main.c:36-37: _timer_state_divide++; if(_timer_state_divide >= 125)
state_tick_due == _timer_state_divide + 1 >= STATE_DIVIDE

\* audio_isr, lines 33-41: audio_tick, then state_tick on every 125th call.
audio_isr ==
    /\ audio_tick
    /\ IF state_tick_due
       THEN /\ _flash_phase' = state_tick_phase
            /\ pin_led_status' = state_tick_phase
            /\ _timer_state_divide' = 0
            /\ isr_calls' = <<"audio_tick", "state_tick">>
       ELSE /\ _timer_state_divide' = _timer_state_divide + 1
            /\ isr_calls' = <<"audio_tick">>
            /\ UNCHANGED <<_flash_phase, pin_led_status>>
    /\ mode_req' = "none"
    /\ UNCHANGED <<_connected, _led_on, _button_pressed, _status_flashing,
                   pin_led_button, pin_led_pcb, main_pc, hostVars, wifiVars, envVars,
                   rx, msg, ret, call, iter>>

\* The interrupt, taken at most MaxTicks times.
Isr ==
    /\ ticks < MaxTicks
    /\ ticks' = ticks + 1
    /\ audio_isr

\* ------------------------------------------------------------------------
\* Environment
\* ------------------------------------------------------------------------

\* The network and the host go out of reach or come back.
NetChange ==
    /\ net_up' = ~net_up
    /\ UNCHANGED <<audioVars, stateVars, mainVars, hostVars, wifiVars,
                   wifi_started, link, open_socks, broken, stream, _id_pins, obsVars>>

\* The connection of the current session breaks (peer close, reset).
SockBreak ==
    /\ Healthy(_host_socket)
    /\ broken' = broken \cup {_host_socket}
    /\ UNCHANGED <<audioVars, stateVars, mainVars, hostVars, wifiVars,
                   wifi_started, link, net_up, open_socks, stream, _id_pins, obsVars>>

\* ------------------------------------------------------------------------
\* The system
\* ------------------------------------------------------------------------

\* The state after app_main's initialisation (main.c:95-100): state_init
\* (state_connect, then the button task), host_init (the heartbeat task),
\* audio_init (which clears the stop request state_connect raised),
\* setup_timer.
InitWith(pins) ==
    /\ _audio_start = FALSE /\ _audio_stop = FALSE /\ _audio_count = 0 /\ pin_buzzer = 0
    /\ _connected = FALSE /\ _led_on = FALSE /\ _button_pressed = FALSE
    /\ _status_flashing = TRUE /\ _flash_phase = 0
    /\ pin_led_button = 0 /\ pin_led_pcb = 0 /\ pin_led_status = 0
    /\ _timer_state_divide = 0 /\ main_pc = "run"
    /\ _host_socket = 0 /\ sock = 0
    /\ hs = [t \in Threads |-> IF t = "hb" THEN "chk" ELSE "idle"]
    /\ btn_pc = "poll" /\ btn_new = FALSE /\ btn_last = FALSE
    /\ _wifi_event_signal = 0 /\ _wifi_connect_retries = 0
    /\ wifi_registered = FALSE /\ signal = 0
    /\ _id_pins = pins
    /\ wifi_started = FALSE /\ link = "idle" /\ net_up \in BOOLEAN
    /\ open_socks = {} /\ broken = {}
    /\ stream = <<>>
    /\ ticks = 0 /\ isr_calls = <<>> /\ last_tick = [kind |-> "none", par |-> 0, cnt |-> 0]
    /\ rx = "none" /\ msg = 0
    /\ ret = [t \in Threads |-> "none"]
    /\ call = NoCall
    /\ iter = [est |-> FALSE, prev_est |-> FALSE, how |-> "boot",
               wifi |-> "none", host |-> "none"]
    /\ mode_req = "none"

Init == InitWith(BoardIdPins)

Next == Main \/ Heartbeat \/ Button \/ Isr \/ WifiEvent \/ NetChange \/ SockBreak

Spec == Init /\ [][Next]_vars

\* The audio module alone: its three entry points called in any order.
ApiStart ==
    /\ audio_start
    /\ UNCHANGED <<stateVars, mainVars, hostVars, wifiVars, envVars, obsVars>>

ApiStop ==
    /\ audio_stop
    /\ UNCHANGED <<stateVars, mainVars, hostVars, wifiVars, envVars, obsVars>>

ApiTick ==
    /\ audio_tick
    /\ UNCHANGED <<stateVars, mainVars, hostVars, wifiVars, envVars,
                   ticks, isr_calls, rx, msg, ret, call, iter, mode_req>>

NextAudio == ApiStart \/ ApiStop \/ ApiTick

SpecAudio == Init /\ [][NextAudio]_vars

\* The orchestration loop on an unreliable network, without the tasks and
\* the interrupt.
NextNet == Main \/ WifiEvent \/ NetChange \/ SockBreak

SpecNet == Init /\ [][NextNet]_vars

\* The main task always gets to run (the other tasks and the interrupt block
\* or end), and the event loop delivers the events the driver has pending.
LiveNet == SpecNet /\ WF_vars(Main) /\ WF_vars(WifiEvent)

\* The network and the host within reach from the start.
InitUp == Init /\ net_up

\* The three contexts that send, with sessions that break.
NextSession == Main \/ Heartbeat \/ Button \/ EvStaStart \/ EvGotIp \/ SockBreak

SpecSession == InitUp /\ [][NextSession]_vars

\* The main task and the timer interrupt.
NextMode == Main \/ Isr \/ EvStaStart \/ EvGotIp \/ SockBreak

SpecMode == InitUp /\ [][NextMode]_vars

\* The timer interrupt over MaxWindows periods of the status tick, while the
\* main task moves between connecting and connected.
IsrRun ==
    /\ ticks < MaxWindows * STATE_DIVIDE
    /\ ticks' = ticks + 1
    /\ audio_isr

ApiConnect ==
    /\ state_connect
    /\ UNCHANGED <<mainVars, hostVars, wifiVars, envVars, obsVars>>

ApiConnected ==
    /\ state_connected
    /\ UNCHANGED <<mainVars, hostVars, wifiVars, envVars, obsVars>>

NextTimer == IsrRun \/ ApiConnect \/ ApiConnected

SpecTimer == Init /\ [][NextTimer]_vars

\* The outputs: state_enable called with any arguments once state_connected
\* has run, as host_process_messages does, with audio ticks in between.
\* mode_req notes when the last two calls were (true, true), (false, false).
ApiEnable ==
    /\ _connected
    /\ \E led \in BOOLEAN, audio \in BOOLEAN :
          /\ state_enable(led, audio)
          /\ mode_req' = (IF led /\ audio THEN "on"
                          ELSE IF ~led /\ ~audio /\ mode_req = "on" THEN "on_off"
                          ELSE "none")
    /\ UNCHANGED <<mainVars, hostVars, wifiVars, envVars,
                   ticks, isr_calls, last_tick, rx, msg, ret, call, iter>>

NextOutputs == ApiConnected \/ ApiEnable \/ ApiTick

SpecOutputs == Init /\ [][NextOutputs]_vars

\* The ID announce of host_connect, for every level the id pins can have.
IdPinLevels == [1..ID_SIZE -> {0, 1}]

InitAnyId == \E pins \in IdPinLevels : InitWith(pins)

\* host.c:96-99: id = read_module_id(); the byte MSG_ID_PREFIX | id is sent.
IdAnnounce ==
    /\ stream = <<>>
    /\ stream' = <<BitOr(MSG_ID_PREFIX, read_module_id)>>
    /\ UNCHANGED <<audioVars, stateVars, mainVars, hostVars, wifiVars,
                   wifi_started, link, net_up, open_socks, broken, _id_pins, obsVars>>

NextId == IdAnnounce

SpecId == InitAnyId /\ [][NextId]_vars

\* ------------------------------------------------------------------------
\* Properties
\* ------------------------------------------------------------------------

\* A step of audio_tick.
TickStep == last_tick'.par # last_tick.par

\* C1: stop wins over start. Every tick that finds both a start and a stop
\* request pending, whatever the counter, consumes both and leaves no
\* playback running: the counter is at most 1 and the transducer is low.
C1_StopWins ==
    [][(TickStep /\ _audio_start /\ _audio_stop)
         => (~_audio_start' /\ ~_audio_stop' /\ _audio_count' <= 1 /\ pin_buzzer' = 0)]_vars

\* A tick has just consumed both requests and playback is off.
C1_Witness ==
    /\ last_tick.kind = "both"
    /\ ~_audio_start /\ ~_audio_stop
    /\ _audio_count = 0 /\ pin_buzzer = 0

\* C2: self-healing. If the network and the host become and stay reachable,
\* the device is connected again and again, whatever failed before.
C2_SelfHealing == (<>[]net_up) => ([]<>_connected)

\* C3: a recv that fails ends the session and the receive loop: the socket
\* is marked invalid, host_process_messages returns, and nothing is
\* dispatched for the failed read (no state_enable, no error reply).
C3_ReadErrorEndsSession ==
    [][(main_pc = "pm_recv" /\ rx' = "err")
         => (/\ _host_socket' = 0
             /\ main_pc' = "run"
             /\ hs'["main"] = "idle"
             /\ UNCHANGED <<audioVars, stateVars>>)]_vars

\* The byte host_connect announces the module id with.
IdByte == BitOr(MSG_ID_PREFIX, read_module_id)

\* C4: on every session the first byte sent is VERSION and the second is the
\* ID byte, under every interleaving of the three sending contexts.
C4_HandshakeFirst ==
    /\ Len(stream) >= 1 => stream[1] = MSG_VERSION
    /\ Len(stream) >= 2 => stream[2] = IdByte

\* C5: after a received MODE byte with the LED and audio bits set, playback
\* being idle, the next tick finds the button LED on and starts the
\* countdown at the configured duration.
C5_ModeStartsAudio ==
    [][(mode_req = "on_idle" /\ ticks' = ticks + 1)
         => (pin_led_button' = 1 /\ _audio_count' = AUDIO_DURATION - 1)]_vars

\* C6: every wifi_connect call has exactly one of CONNECTED / FAILED
\* signalled during the call, and returns accordingly.
C6_OneOutcomePerCall ==
    call.result # "none"
      => /\ Cardinality(call.set) = 1
         /\ (call.result = "ok") <=> (call.set = {WIFI_CONNECTED})

\* C7: a wifi_connect call in which no address was acquired returns failure
\* after 6 retries and a 7th disconnection; a call in which an address was
\* acquired returns success.
C7_RetryCeiling ==
    call.result # "none"
      => IF WIFI_CONNECTED \in call.set
         THEN call.result = "ok"
         ELSE /\ call.result = "fail"
              /\ call.retry = WIFI_MAX_RETRIES
              /\ call.disc = WIFI_MAX_RETRIES + 1

\* Positions of the main task between state_connect and state_connected.
Connecting == {"wifi_reg", "wifi_wait", "wifi_blocked", "wifi_unreg",
               "hc_socket", "hc_connect", "hc_ver", "hc_id", "connected"}

\* Positions of the main task inside host_process_messages.
InProcess == {"pm_loop", "pm_recv", "pm_err"}

\* C8: the main loop delays exactly when the iteration established no
\* session; after a lost session the next iteration starts at once. Every
\* iteration starts with state_connect, and state_connected is reached only
\* after wifi_connect and host_connect both succeeded.
C8_DelayIffNoSession ==
    /\ main_pc = "delay" => (~iter.est /\ (iter.wifi = "fail" \/ iter.host = "fail"))
    /\ (main_pc = "run" /\ iter.how = "immediate") => iter.est
    /\ (main_pc = "run" /\ iter.how = "delayed") => ~iter.est
    /\ (main_pc # "run" /\ iter.how = "immediate") => iter.prev_est
    /\ (main_pc # "run" /\ iter.how = "delayed") => ~iter.prev_est
    /\ iter.est => (iter.wifi = "ok" /\ iter.host = "ok")
    /\ main_pc \in Connecting
         => (~iter.est /\ ~_connected /\ _status_flashing /\ ~_led_on /\ pin_led_button = 0)
    /\ main_pc \in InProcess => (iter.est /\ _connected)

\* An iteration that started at once after a lost session has itself failed
\* to connect and is now in the delay.
C8_Witness ==
    /\ main_pc = "delay"
    /\ iter.how = "immediate"
    /\ iter.prev_est
    /\ iter.host = "fail"

\* How far the main task is from leaving host_process_messages.
ProcessRank ==
    IF main_pc = "pm_recv" THEN 5
    ELSE IF main_pc = "pm_err"
    THEN (IF hs["main"] = "chk" THEN 4 ELSE IF hs["main"] = "send" THEN 3 ELSE 2)
    ELSE IF main_pc = "pm_loop" THEN 1
    ELSE 0

\* C9: while the session is marked dead, a send attempt from any context is
\* a no-op that returns failure and no byte is transmitted; and the receive
\* loop returns: the main task is never blocked there and each of its steps
\* brings it closer to the return.
C9_DeadSessionSends ==
    /\ [][_host_socket = 0
            => /\ \A t \in Threads :
                    /\ hs[t] = "chk" => hs'[t] # "send"
                    /\ ret'[t] \in {ret[t], "fail"}
               /\ Len(stream') <= Len(stream)]_vars
    /\ [][(_host_socket = 0 /\ main_pc \in InProcess
             /\ <<main_pc, hs["main"]>>' # <<main_pc, hs["main"]>>)
            => ProcessRank' < ProcessRank]_vars
    /\ []((_host_socket = 0 /\ main_pc \in InProcess) => ENABLED Main)

\* The session died, the heartbeat and the button task each had a send
\* refused, and the receive loop has returned to the main loop.
C9_Witness ==
    /\ _host_socket = 0
    /\ main_pc = "run" /\ iter.how = "immediate" /\ iter.est
    /\ ret["hb"] = "fail" /\ ret["btn"] = "fail"
    /\ hs["hb"] = "chk" /\ hs["btn"] = "idle"

\* Bytes that are no MODE command: byte & 0xFC # 0x20.
NotModeByte(m) == m \notin 32..35

\* What a byte that is no MODE command must leave alone.
KeptByBadByte == <<_connected, _led_on, pin_led_button, _status_flashing,
                   _audio_start, _audio_stop>>

\* C10: a received byte that is no MODE command is not fatal. The main task
\* goes on to send ERR_BAD_MSG, once: with the session open the byte goes
\* out and the loop continues; the session handle, the connectivity state,
\* the button LED, the flashing mode and the audio requests are untouched.
C10_BadByteNonFatal ==
    /\ [][(main_pc = "pm_recv" /\ rx' = "byte" /\ NotModeByte(msg'))
            => /\ main_pc' = "pm_err" /\ hs'["main"] = "chk"
               /\ UNCHANGED <<KeptByBadByte, _host_socket, stream>>]_vars
    /\ [][(main_pc = "pm_err" /\ <<main_pc, hs["main"]>>' # <<main_pc, hs["main"]>>)
            => /\ UNCHANGED KeptByBadByte
               /\ (hs["main"] = "chk" /\ _host_socket # 0)
                    => (hs'["main"] = "send" /\ UNCHANGED <<_host_socket, stream>>)
               /\ (hs["main"] = "send" /\ Healthy(_host_socket))
                    => /\ stream' = Append(stream, MSG_ERR_BAD_MSG)
                       /\ main_pc' = "pm_loop"
                       /\ ret'["main"] = "ok"
                       /\ UNCHANGED _host_socket
               /\ hs["main"] # "mark" => UNCHANGED _host_socket]_vars
    /\ [](hs["main"] = "mark" => ~Healthy(_host_socket))

\* The reply to a bad byte has gone out and the session is still open.
C10_Witness ==
    /\ main_pc = "pm_loop"
    /\ rx = "byte" /\ NotModeByte(msg)
    /\ ret["main"] = "ok"
    /\ Healthy(_host_socket)
    /\ Len(stream) >= 3 /\ stream[Len(stream)] = MSG_ERR_BAD_MSG
    /\ _connected

\* C11 as stated: every tick that consumes a start request while playback is
\* active clears the request and leaves the counter at its previous value
\* minus 1.
C11_StartWhileActive ==
    [][(TickStep /\ _audio_start /\ _audio_count > 0)
         => (~_audio_start' /\ _audio_count' = _audio_count - 1)]_vars

\* C11 amended: a tick that consumes a start request while playback is active
\* clears the request and never reloads the counter: without a stop request
\* pending the counter is its previous value minus 1, with one pending the
\* stop wins and the counter is 0, in both cases what the tick would have
\* left without the start request.
C11_StartNeverRestarts ==
    [][(TickStep /\ _audio_start /\ _audio_count > 0)
         => (/\ ~_audio_start'
             /\ _audio_count' = IF _audio_stop THEN 0 ELSE _audio_count - 1)]_vars

\* A tick has consumed a start request, alone, in the middle of a playback.
C11_Witness ==
    /\ last_tick.kind = "start"
    /\ last_tick.cnt = AUDIO_DURATION - 2
    /\ _audio_count = AUDIO_DURATION - 3
    /\ ~_audio_start

\* C12 as stated: the tick that consumes a stop request found with the
\* counter above 1 turns the transducer off and leaves the counter at 1.
C12_StopLeavesOne ==
    [][(TickStep /\ _audio_stop /\ _audio_count > 1)
         => (_audio_count' = 1 /\ pin_buzzer' = 0)]_vars

\* C12 amended: the tick that consumes a stop request found with the counter
\* above 1 forces the counter to 1 and decrements it in the same tick: after
\* that tick the request is cleared, the counter is 0 and the transducer is
\* low, whatever the counter was; a following tick without a new start
\* request leaves the counter at 0 and the transducer low.
C12_StopEndsInOneTick ==
    /\ [][(TickStep /\ _audio_stop /\ _audio_count > 1)
            => (~_audio_stop' /\ _audio_count' = 0 /\ pin_buzzer' = 0)]_vars
    /\ [][(TickStep /\ last_tick.kind \in {"stop", "both"} /\ last_tick.cnt > 1
             /\ ~_audio_start)
            => (_audio_count' = 0 /\ pin_buzzer' = 0)]_vars

\* A tick has consumed a stop request found in mid playback with the
\* transducer high.
C12_Witness ==
    /\ last_tick.kind = "stop"
    /\ last_tick.cnt = AUDIO_DURATION - 1
    /\ _audio_count = 0 /\ pin_buzzer = 0
    /\ ~_audio_stop

\* C13: the transducer is a square wave of the counter: in every state its
\* level is (duration - counter) mod 2, hence low when the counter is 0, and
\* the counter stays within 0..duration; a tick that finds the counter above
\* 0 and no stop request decrements it by exactly one, a tick that finds it
\* at 0 and no request leaves it at 0.
C13_SquareWave ==
    /\ [](/\ _audio_count \in 0..AUDIO_DURATION
          /\ pin_buzzer = (AUDIO_DURATION - _audio_count) % 2)
    /\ [][(TickStep /\ _audio_count > 0 /\ ~_audio_stop)
            => _audio_count' = _audio_count - 1]_vars
    /\ [][(TickStep /\ _audio_count = 0 /\ ~_audio_start)
            => (_audio_count' = 0 /\ pin_buzzer' = 0)]_vars

\* Playback has run three ticks from a fresh start and the transducer is high.
C13_Witness ==
    /\ last_tick.kind = "idle"
    /\ last_tick.cnt = AUDIO_DURATION - 2
    /\ _audio_count = AUDIO_DURATION - 3
    /\ pin_buzzer = 1


\* C14: edge detection of check_button. A press event is emitted (the task
\* goes on to host_send_press) exactly by a sample that is pressed while the
\* sample before it was not and the device is connected: repeated pressed
\* samples emit once, and a button held since before the connection emits
\* nothing until it has been sampled released.
C14_EdgeDetection ==
    /\ [][(btn_pc = "poll" /\ btn_pc' = "press")
            => (btn_last' /\ ~btn_last /\ _connected)]_vars
    /\ [][(btn_pc = "poll" /\ btn_last' /\ ~btn_last /\ _connected)
            => (btn_pc' = "press" /\ hs'["btn"] = "chk")]_vars
    /\ [][(btn_pc = "poll" /\ btn_last' /\ (btn_last \/ ~_connected))
            => btn_pc' = "poll"]_vars
    /\ [](btn_pc # "poll" => btn_last)

\* A press was emitted and its byte sent; the button is still sampled
\* pressed and no further press is under way.
C14_Witness ==
    /\ btn_pc = "poll"
    /\ btn_last /\ _button_pressed
    /\ _connected
    /\ ret["btn"] = "ok"
    /\ MSG_PRESS \in {stream[i] : i \in 1..Len(stream)}


\* C15: the status tick runs on the 125th, 250th, ... interrupt and on no
\* other, after audio_tick of the same interrupt, and between interrupts the
\* divider is the number of interrupts since the last status tick, within
\* 0..124.
C15_StatusTickCadence ==
    /\ _timer_state_divide \in 0..(STATE_DIVIDE - 1)
    /\ _timer_state_divide = ticks % STATE_DIVIDE
    /\ (ticks > 0 /\ ticks % STATE_DIVIDE = 0) => isr_calls = <<"audio_tick", "state_tick">>
    /\ (ticks > 0 /\ ticks % STATE_DIVIDE # 0) => isr_calls = <<"audio_tick">>

\* The 250th interrupt has run the status tick for the second time.
C15_Witness ==
    /\ ticks = 2 * STATE_DIVIDE
    /\ isr_calls = <<"audio_tick", "state_tick">>
    /\ _timer_state_divide = 0

\* An interrupt that calls state_tick.
StatusTickStep == ticks' = ticks + 1 /\ isr_calls' = <<"audio_tick", "state_tick">>

\* C16: every state_tick call in flashing mode inverts the level the status
\* LED had after the previous call, and every call outside flashing mode
\* drives it on, so that it stays on across consecutive such calls.
C16_StatusLed ==
    /\ [][(StatusTickStep /\ _status_flashing)
            => pin_led_status' = 1 - pin_led_status]_vars
    /\ [][(StatusTickStep /\ ~_status_flashing)
            => pin_led_status' = 1]_vars
    /\ [][~StatusTickStep => pin_led_status' = pin_led_status]_vars

\* The third status tick ran in flashing mode and turned the LED off.
C16_Witness ==
    /\ ticks = 3 * STATE_DIVIDE
    /\ isr_calls = <<"audio_tick", "state_tick">>
    /\ _status_flashing
    /\ pin_led_status = 0


\* C17: after state_enable(true, true) followed by state_enable(false,
\* false), with any number of ticks between them, the button LED is off and
\* the device is connected and out of flashing mode at once, and the first
\* tick after the second call leaves the audio idle (no request pending, the
\* counter 0, the transducer low), where it stays.
C17_OnThenOff ==
    /\ [](mode_req = "on_off"
            => (pin_led_button = 0 /\ ~_led_on /\ _connected /\ ~_status_flashing))
    /\ [][(mode_req = "on_off" /\ TickStep)
            => (/\ _audio_count' = 0 /\ pin_buzzer' = 0
                /\ ~_audio_start' /\ ~_audio_stop')]_vars
    /\ []((mode_req = "on_off" /\ ~_audio_stop)
            => (_audio_count = 0 /\ pin_buzzer = 0 /\ ~_audio_start))

\* The second call came in mid playback with the transducer high, and the
\* tick after it has ended the playback.
C17_Witness ==
    /\ mode_req = "on_off"
    /\ last_tick.kind = "stop"
    /\ last_tick.cnt = AUDIO_DURATION - 1
    /\ _audio_count = 0 /\ pin_buzzer = 0
    /\ pin_led_button = 0 /\ _connected


\* The number the id pin levels spell, most significant pin first.
RECURSIVE PinSum(_, _)
PinSum(pins, i) ==
    IF i > ID_SIZE THEN 0
    ELSE pins[i] * 2^(ID_SIZE - i) + PinSum(pins, i + 1)

\* C18 as stated: for every level of the id pins the announce byte has the
\* prefix in its high 2 bits and the module id in its low 6 bits.
C18_IdByteSixBits ==
    Len(stream) = 1
      => /\ stream[1] \div 64 = MSG_ID_PREFIX \div 64
         /\ stream[1] % 64 = PinSum(_id_pins, 1)

\* C18 amended: for every level of the seven id pins the announce byte has
\* the prefix in its high bit and the module id, 0..127, in its low 7 bits.
C18_IdByteSevenBits ==
    Len(stream) = 1
      => /\ stream[1] \div 128 = MSG_ID_PREFIX \div 128
         /\ stream[1] % 128 = PinSum(_id_pins, 1)
         /\ stream[1] \in 128..255

\* The id pins spell 67 and the byte 0xC3 was announced.
C18_Witness ==
    /\ _id_pins = BoardIdPins
    /\ stream = <<195>>


C20_NoSyscallOnZero ==
    /\ [][\A t \in Threads :
            (hs[t] = "send" /\ hs'[t] # "send") => _host_socket # 0]_vars
    /\ [][(main_pc = "pm_recv" /\ main_pc' # "pm_recv") => _host_socket # 0]_vars


\* C21: at most one host socket is open at any time: the socket of a session
\* that ended is closed before socket() is called for the next session.
C21_OneSocketOpen == Cardinality(open_socks) <= 1


====
